---- MODULE Spec2Model ----
(***************************************************************************)
(* Tool inventory: the Database record store (connections.py), the models  *)
(* ToolCreate / Tool / ToolPatch (models.py) and the request handlers of   *)
(* routers/tools.py and routers/webapp.py.                                 *)
(*                                                                         *)
(* Text is a sequence of one-character strings.  An optional value         *)
(* (str | None, int | None) is <<>> for None and <<x>> for the value x.    *)
(* Every handler is an "async def" without an await in its body, so one    *)
(* request runs to completion before the next starts: one action each.     *)
(* SpecSessions has several worker processes on the one database file      *)
(* (each request in a Session of its own): there the lookup and the commit *)
(* of an update are two steps, and other requests run in between.          *)
(***************************************************************************)
EXTENDS Integers, Sequences, FiniteSets, TLC

VARIABLES tools, nextId, last, solo, sessions

vars == <<tools, nextId, last, solo, sessions>>

\* ------------------------------------------------------------- bounds
\* Number of uuid4 values ever persisted (ids are 1..MaxId, never reused).
MaxId == 2
\* Quantity adjustment stops incrementing at this stored quantity.
MaxQty == 1
\* Number of update requests whose lookup and commit are separate steps.
MaxSessions == 2

\* ------------------------------------------------------------- values
None == <<>>

Some(x) == <<x>>

Users == {"u1", "u2"}

\* created_by_user_id of a Tool that create_tool has not yet assigned.
NoUser == "unset"

nA == <<"a">>

nAb == <<"A", "b">>

nPadAb == <<" ", "A", "b">>

nSpace == <<" ">>

nEmpty == <<>>

tD == <<"d">>

tPadD == <<" ", "d", " ">>

tI == <<"i">>

\* ------------------------------------------------------------- text
IsSpace(c) == c = " "

RECURSIVE lstrip(_)
lstrip(s) ==
    IF Len(s) > 0 /\ IsSpace(Head(s)) THEN lstrip(Tail(s)) ELSE s

RECURSIVE rstrip(_)
rstrip(s) ==
    IF Len(s) > 0 /\ IsSpace(s[Len(s)])
    THEN rstrip(SubSeq(s, 1, Len(s) - 1))
    ELSE s

\* str.strip()
strip(s) == rstrip(lstrip(s))

lowerChar(c) ==
    CASE c = "A" -> "a"
      [] c = "B" -> "b"
      [] OTHER -> c

\* str.lower()
lower(s) == [i \in 1..Len(s) |-> lowerChar(s[i])]

Max2(a, b) == IF a >= b THEN a ELSE b

\* Length of the longest common subsequence of two texts.
RECURSIVE LCS(_, _)
LCS(a, b) ==
    IF Len(a) = 0 \/ Len(b) = 0 THEN 0
    ELSE IF Head(a) = Head(b) THEN 1 + LCS(Tail(a), Tail(b))
    ELSE Max2(LCS(Tail(a), b), LCS(a, Tail(b)))

\* int(round(x)) for x = num / den >= 0, Python's round-half-to-even.
RoundHalfEven(num, den) ==
    LET q == num \div den
        r == num % den
    IN  IF 2 * r > den THEN q + 1
        ELSE IF 2 * r < den THEN q
        ELSE IF q % 2 = 0 THEN q ELSE q + 1

\* thefuzz fuzz.ratio: the normalised indel similarity on a 0..100 scale,
\* 100 * (1 - (len a + len b - 2 LCS) / (len a + len b)), rounded.
ratio(a, b) ==
    IF Len(a) + Len(b) = 0 THEN 100
    ELSE RoundHalfEven(200 * LCS(a, b), Len(a) + Len(b))

\* ------------------------------------------------------------- models.py
\* ToolCreate's field constraints: name min_length=1, quantity ge=0.
ToolCreateValid(d) == Len(d.name) >= 1 /\ d.quantity >= 0

OrEmpty(opt) == IF opt = None THEN <<>> ELSE opt[1]

\* to_model with the image taken from the description field.
to_model_image_from_description(d, uuid) ==
    [id |-> uuid,
     name |-> strip(d.name),
     quantity |-> d.quantity,
     description |-> strip(OrEmpty(d.description)),
     image |-> strip(OrEmpty(d.description)),
     created_by_user_id |-> NoUser]

\* ToolCreate.to_model: description and image default to "", all text is
\* stripped, the id comes from uuid4 and no owner is set.
to_model(d, uuid) ==
    [id |-> uuid,
     name |-> strip(d.name),
     quantity |-> d.quantity,
     description |-> strip(OrEmpty(d.description)),
     image |-> strip(OrEmpty(d.image)),
     created_by_user_id |-> NoUser]

\* model_validate without the ge=0 constraint on quantity.
model_validate_no_quantity(tool) ==
    /\ Len(tool.name) >= 1
    /\ tool.created_by_user_id # NoUser

\* Tool.model_validate: name min_length=1, quantity ge=0, owner required.
model_validate(tool) ==
    /\ Len(tool.name) >= 1
    /\ tool.quantity >= 0
    /\ tool.created_by_user_id # NoUser

\* patch testing "if self.x:" instead of "if self.x is not None:".
patch_truthy(p, tool) ==
    [id |-> tool.id,
     name |-> IF p.name # None /\ p.name[1] # <<>>
              THEN p.name[1] ELSE tool.name,
     quantity |-> IF p.quantity # None /\ p.quantity[1] # 0
                  THEN p.quantity[1] ELSE tool.quantity,
     description |-> IF p.description # None /\ p.description[1] # <<>>
                     THEN p.description[1] ELSE tool.description,
     image |-> IF p.image # None /\ p.image[1] # <<>>
               THEN p.image[1] ELSE tool.image,
     created_by_user_id |-> tool.created_by_user_id]

\* ToolPatch.patch
patch(p, tool) ==
    [id |-> tool.id,
     name |-> IF p.name # None THEN p.name[1] ELSE tool.name,
     quantity |-> IF p.quantity # None THEN p.quantity[1] ELSE tool.quantity,
     description |->
         IF p.description # None THEN p.description[1] ELSE tool.description,
     image |-> IF p.image # None THEN p.image[1] ELSE tool.image,
     created_by_user_id |-> tool.created_by_user_id]

NullPatch ==
    [name |-> None, quantity |-> None, description |-> None, image |-> None]

\* ------------------------------------------------------------- connections.py
Result(status, store, out) == [status |-> status, store |-> store, out |-> out]

Ids(store) == {store[i].id : i \in 1..Len(store)}

OwnedBy(store, user) ==
    SelectSeq(store, LAMBDA r : r.created_by_user_id = user)

\* get_tool_by_id selecting on the id alone.
get_tool_by_id_any_owner(store, user, tool_id) ==
    LET rows == SelectSeq(store, LAMBDA r : r.id = tool_id)
    IN  IF Len(rows) = 1
        THEN [status |-> "ok", store |-> store, out |-> <<rows[1]>>]
        ELSE [status |-> "ToolNotFoundError", store |-> store, out |-> <<>>]

\* Database.get_tool_by_id: select where owner and id match, result.one().
get_tool_by_id(store, user, tool_id) ==
    LET rows == SelectSeq(store,
                    LAMBDA r : r.created_by_user_id = user /\ r.id = tool_id)
    IN  IF Len(rows) = 1
        THEN Result("ok", store, <<rows[1]>>)
        ELSE Result("ToolNotFoundError", store, <<>>)

\* get_tools without the owner in its select.
get_tools_all_owners(store, user, name) ==
    IF name # None /\ Len(name[1]) > 0
    THEN SelectSeq(store, LAMBDA r : r.name = name[1])
    ELSE store

\* Database.get_tools: "if name:" is false for None and for "".
get_tools(store, user, name) ==
    LET owned == OwnedBy(store, user)
    IN  IF name # None /\ Len(name[1]) > 0
        THEN SelectSeq(owned, LAMBDA r : r.name = name[1])
        ELSE owned

\* The score search_tools gives a tool for a query.
score(query, tool) == ratio(lower(query), lower(tool.name))

\* The (score, tool) pairs search_tools collects: score > 50.
Matches(store, user, query) ==
    LET owned == OwnedBy(store, user)
        kept == SelectSeq(owned, LAMBDA r : score(query, r) > 50)
    IN  [i \in 1..Len(kept) |-> <<score(query, kept[i]), kept[i]>>]

\* Pairs in descending order of score (no two scores equal).
RECURSIVE Descending(_)
Descending(ms) ==
    IF Len(ms) = 0 THEN <<>>
    ELSE LET top == CHOOSE i \in 1..Len(ms) :
                        \A j \in 1..Len(ms) : ms[i][1] >= ms[j][1]
             rest == [k \in 1..(Len(ms) - 1) |->
                         IF k < top THEN ms[k] ELSE ms[k + 1]]
         IN  <<ms[top]>> \o Descending(rest)

\* sorted(matches, reverse=True) on (score, tool) tuples: tuples with equal
\* scores are ordered by their tools, and Tool defines no "<": TypeError.
\* Any comparison sort compares two tuples that end up adjacent, so a tie
\* among the matches is always compared.
sorted_reverse(ms) ==
    IF \E i, j \in 1..Len(ms) : i # j /\ ms[i][1] = ms[j][1]
    THEN [status |-> "TypeError", out |-> <<>>]
    ELSE [status |-> "ok", out |-> Descending(ms)]

\* Database.search_tools
search_tools(store, user, query) ==
    LET s == sorted_reverse(Matches(store, user, query))
    IN  Result(s.status, store, [i \in 1..Len(s.out) |-> s.out[i][2]])

\* create_tool without Tool.model_validate.
create_tool_unvalidated(store, user, tool) ==
    LET t == [tool EXCEPT !.created_by_user_id = user]
    IN  IF t.id \in Ids(store)
        THEN Result("ToolExistsError", store, <<>>)
        ELSE Result("ok", Append(store, t), <<t>>)

\* Database.create_tool: assign the owner, validate, insert, commit.
create_tool(store, user, tool) ==
    LET t == [tool EXCEPT !.created_by_user_id = user]
    IN  IF ~model_validate(t) THEN Result("ValidationError", store, <<>>)
        ELSE IF t.id \in Ids(store)
        THEN Result("ToolExistsError", store, <<>>)
        ELSE Result("ok", Append(store, t), <<t>>)

\* Database.update_tool: ownership check, validate, persist the row by its
\* primary key.  A row that is gone makes the UPDATE match nothing, which
\* the session reports as StaleDataError (not an IntegrityError).
update_tool(store, user, tool) ==
    IF tool.created_by_user_id # user
    THEN Result("ToolNotFoundError", store, <<>>)
    ELSE IF ~model_validate(tool) THEN Result("ValidationError", store, <<>>)
    ELSE IF tool.id \notin Ids(store)
    THEN Result("StaleDataError", store, <<>>)
    ELSE Result("ok",
                [i \in 1..Len(store) |->
                    IF store[i].id = tool.id THEN tool ELSE store[i]],
                <<tool>>)

\* The columns the session finds modified on a loaded tool.
Changed(loaded, tool) ==
    {f \in {"name", "quantity", "description", "image"} : tool[f] # loaded[f]}

\* Database.update_tool in a session that loaded the row earlier, on the
\* table as it is at commit.  The flush writes the modified columns only,
\* by primary key.  With the row gone the UPDATE matches nothing and the
\* session raises StaleDataError; with nothing modified no UPDATE is sent
\* and session.refresh finds no row: InvalidRequestError.  Neither is an
\* IntegrityError, the one error update_tool translates.
update_tool_in_session(store, user, loaded, tool) ==
    IF tool.created_by_user_id # user
    THEN Result("ToolNotFoundError", store, <<>>)
    ELSE IF ~model_validate(tool) THEN Result("ValidationError", store, <<>>)
    ELSE IF tool.id \notin Ids(store)
    THEN IF Changed(loaded, tool) # {}
         THEN Result("StaleDataError", store, <<>>)
         ELSE Result("InvalidRequestError", store, <<>>)
    ELSE LET written(cur) ==
                 [f \in DOMAIN cur |->
                     IF f \in Changed(loaded, tool) THEN tool[f] ELSE cur[f]]
             after == [i \in 1..Len(store) |->
                          IF store[i].id = tool.id
                          THEN written(store[i]) ELSE store[i]]
         IN  Result("ok", after,
                    SelectSeq(after, LAMBDA r : r.id = tool.id))

\* delete_tool deleting the row of that id whoever owns it.
delete_tool_any_owner(store, user, tool_id) ==
    IF tool_id \notin Ids(store)
    THEN Result("ToolNotFoundError", store, <<>>)
    ELSE Result("ok", SelectSeq(store, LAMBDA r : r.id # tool_id), <<>>)

\* Database.delete_tool: look the tool up as get_tool_by_id does, delete it.
delete_tool(store, user, tool_id) ==
    LET g == get_tool_by_id(store, user, tool_id)
    IN  IF g.status # "ok" THEN Result(g.status, store, <<>>)
        ELSE Result("ok", SelectSeq(store, LAMBDA r : r.id # tool_id), <<>>)

\* ------------------------------------------------------------- handlers
\* POST /api/tool/ (and POST /create, whose form carries no image): the
\* request body is validated as a ToolCreate, converted and created.
api_create_tool(store, user, d, uuid) ==
    IF ~ToolCreateValid(d) THEN Result("RequestValidationError", store, <<>>)
    ELSE create_tool(store, user, to_model(d, uuid))

\* PATCH /api/tool/{tool_id}: look up, patch, update.
api_update_tool(store, user, tool_id, p) ==
    LET g == get_tool_by_id(store, user, tool_id)
    IN  IF g.status # "ok" THEN g
        ELSE update_tool(store, user, patch(p, g.out[1]))

\* The ToolPatch POST /edit/{tool_id} builds from its form: no image.
EditPatch(name, description, quantity) ==
    [name |-> Some(name), quantity |-> Some(quantity),
     description |-> Some(description), image |-> None]

\* POST /edit/{tool_id}
web_edit_tool(store, user, tool_id, name, description, quantity) ==
    LET g == get_tool_by_id(store, user, tool_id)
    IN  IF g.status # "ok" THEN g
        ELSE update_tool(store, user,
                 patch(EditPatch(name, description, quantity), g.out[1]))

\* POST /delete/{tool_id}
web_delete_tool(store, user, tool_id) == delete_tool(store, user, tool_id)

\* The adjusted quantity without the max(0, ...).
AdjustedQuantity_unclamped(q, action) ==
    IF action = "increment" THEN q + 1 ELSE q - 1

\* The quantity POST /update_quantity/{tool_id} patches in:
\* max(0, q + 1 if action == "increment" else q - 1).
AdjustedQuantity(q, action) ==
    Max2(0, IF action = "increment" THEN q + 1 ELSE q - 1)

\* POST /update_quantity/{tool_id}: the response shows the tool as
\* update_tool refreshed it.
web_update_quantity(store, user, tool_id, action) ==
    LET g == get_tool_by_id(store, user, tool_id)
    IN  IF g.status # "ok" THEN g
        ELSE update_tool(store, user,
                 patch([NullPatch EXCEPT
                           !.quantity =
                               Some(AdjustedQuantity(g.out[1].quantity, action))],
                       g.out[1]))

\* ------------------------------------------------------------- requests
Draft(name, quantity, description, image) ==
    [name |-> name, quantity |-> quantity,
     description |-> description, image |-> image]

NoDraft == Draft(<<>>, 0, None, None)

Actions == {"increment", "decrement"}

ToolIds == 1..MaxId

\* ------------------------------------------------------------- state
\* tools: the rows of table tool, in insertion order.
\* nextId: the next value uuid4 returns.
\* last: the last request and its response.
\* solo[u]: the rows there would be had only u's requests been served.
\* sessions: the update requests that have looked their tool up, each with
\* the tool as its session loaded it, and, once committed, its outcome.
Request(op, user, id, draft, p, text, action) ==
    [op |-> op, user |-> user, id |-> id, draft |-> draft, patch |-> p,
     text |-> text, action |-> action]

Responded(req, res) ==
    [op |-> req.op, user |-> req.user, id |-> req.id, draft |-> req.draft,
     patch |-> req.patch, text |-> req.text, action |-> req.action,
     status |-> res.status, out |-> res.out]

Init ==
    /\ tools = <<>>
    /\ nextId = 1
    /\ solo = [u \in Users |-> <<>>]
    /\ last = Responded(Request("none", "u1", 0, NoDraft, NullPatch, None, ""),
                        Result("ok", <<>>, <<>>))
    /\ sessions = <<>>

\* One request served: res on the table, soloRes on the requester's own.
Serve(req, res, soloRes) ==
    /\ tools' = res.store
    /\ solo' = [solo EXCEPT ![req.user] = soloRes.store]
    /\ last' = Responded(req, res)
    /\ sessions' = sessions

\* Each action serves one request of a user in U, its input drawn from
\* the given set.
ApiCreateTool(U, D) ==
    \E u \in U, d \in D :
        /\ nextId <= MaxId
        /\ LET res == api_create_tool(tools, u, d, nextId)
           IN  /\ Serve(Request("create", u, nextId, d, NullPatch, None, ""),
                        res, api_create_tool(solo[u], u, d, nextId))
               /\ nextId' = IF res.status = "ok" THEN nextId + 1 ELSE nextId

ApiGetToolById(U) ==
    \E u \in U, id \in ToolIds :
        /\ Serve(Request("get", u, id, NoDraft, NullPatch, None, ""),
                 get_tool_by_id(tools, u, id), get_tool_by_id(solo[u], u, id))
        /\ UNCHANGED nextId

ApiGetTools(U, F) ==
    \E u \in U, name \in F :
        /\ Serve(Request("list", u, 0, NoDraft, NullPatch, name, ""),
                 Result("ok", tools, get_tools(tools, u, name)),
                 Result("ok", solo[u], get_tools(solo[u], u, name)))
        /\ UNCHANGED nextId

WebSearchTools(U, Q) ==
    \E u \in U, query \in Q :
        /\ Serve(Request("search", u, 0, NoDraft, NullPatch, Some(query), ""),
                 search_tools(tools, u, query), search_tools(solo[u], u, query))
        /\ UNCHANGED nextId

ApiUpdateTool(U, P) ==
    \E u \in U, id \in ToolIds, p \in P :
        /\ Serve(Request("update", u, id, NoDraft, p, None, ""),
                 api_update_tool(tools, u, id, p),
                 api_update_tool(solo[u], u, id, p))
        /\ UNCHANGED nextId

WebEditTool(U, E) ==
    \E u \in U, id \in ToolIds, f \in E :
        /\ Serve(Request("edit", u, id, NoDraft,
                         EditPatch(f[1], f[2], f[3]), None, ""),
                 web_edit_tool(tools, u, id, f[1], f[2], f[3]),
                 web_edit_tool(solo[u], u, id, f[1], f[2], f[3]))
        /\ UNCHANGED nextId

WebDeleteTool(U) ==
    \E u \in U, id \in ToolIds :
        /\ Serve(Request("delete", u, id, NoDraft, NullPatch, None, ""),
                 web_delete_tool(tools, u, id), web_delete_tool(solo[u], u, id))
        /\ UNCHANGED nextId

\* The counter of increments is unbounded in the program; the guard stops
\* the model at MaxQty.
WebUpdateQuantity(U) ==
    \E u \in U, id \in ToolIds, action \in Actions :
        /\ \A i \in 1..Len(tools) :
              (tools[i].id = id /\ action = "increment")
                  => tools[i].quantity < MaxQty
        /\ Serve(Request("quantity", u, id, NoDraft, NullPatch, None, action),
                 web_update_quantity(tools, u, id, action),
                 web_update_quantity(solo[u], u, id, action))
        /\ UNCHANGED nextId

\* Database.update_tool called by u with a tool object that is another
\* user's row, a patch applied to it.  On u's own table that row does not
\* exist and the call changes nothing.
DbUpdateTool(U, P) ==
    \E u \in U, i \in 1..Len(tools), p \in P :
        /\ tools[i].created_by_user_id # u
        /\ Serve(Request("db_update", u, tools[i].id, NoDraft, p, None, ""),
                 update_tool(tools, u, patch(p, tools[i])),
                 Result("ToolNotFoundError", solo[u], <<>>))
        /\ UNCHANGED nextId

\* ------------------------------------------------------------- Spec
\* Two users; tools differ in name and description, a patch renames.
Drafts ==
    {Draft(nA, 0, None, None),
     Draft(nPadAb, 0, Some(tPadD), None)}

Patches == {[NullPatch EXCEPT !.name = Some(nAb)]}

\* ?name= of GET /api/tool/.
Filters == {None, Some(nEmpty), Some(nA)}

\* ?query= of GET /search.
Queries == {<<"A", "B">>, <<"a", "b", "b">>}

Next ==
    \/ ApiCreateTool(Users, Drafts)
    \/ ApiGetToolById(Users)
    \/ ApiGetTools(Users, Filters)
    \/ WebSearchTools(Users, Queries)
    \/ ApiUpdateTool(Users, Patches)
    \/ WebDeleteTool(Users)
    \/ DbUpdateTool(Users, Patches)

Spec == Init /\ [][Next]_vars

\* ------------------------------------------------------------- SpecQuantity
\* Two users, one name; quantities from drafts, patches, the edit form and
\* adjustment, negative ones among them; every kind of read.
QuantityDrafts == {Draft(nA, 0, None, None), Draft(nA, -1, None, None)}

QuantityPatches ==
    {[NullPatch EXCEPT !.quantity = Some(1)],
     [NullPatch EXCEPT !.quantity = Some(-1)]}

QuantityForms == {<<nA, <<>>, -1>>, <<nA, <<>>, 0>>}

NextQuantity ==
    \/ ApiCreateTool(Users, QuantityDrafts)
    \/ ApiUpdateTool(Users, QuantityPatches)
    \/ WebEditTool(Users, QuantityForms)
    \/ WebUpdateQuantity(Users)
    \/ WebDeleteTool(Users)
    \/ ApiGetToolById(Users)
    \/ ApiGetTools(Users, Filters)
    \/ WebSearchTools(Users, Queries)

SpecQuantity == Init /\ [][NextQuantity]_vars

\* ------------------------------------------------------------- SpecText
\* One user; names, descriptions and images from drafts (padded, blank,
\* empty), patches of each single field and the edit form.
TextDrafts ==
    {Draft(nA, 0, None, None),
     Draft(nPadAb, 0, Some(tPadD), None),
     Draft(nSpace, 0, None, None),
     Draft(nEmpty, 0, None, None)}

TextPatches ==
    {NullPatch,
     [NullPatch EXCEPT !.name = Some(nAb)],
     [NullPatch EXCEPT !.name = Some(nEmpty)],
     [NullPatch EXCEPT !.quantity = Some(1)],
     [NullPatch EXCEPT !.description = Some(tD)],
     [NullPatch EXCEPT !.image = Some(tI)]}

TextForms == {<<nEmpty, <<>>, 0>>, <<nA, <<>>, 0>>}

NextText ==
    \/ ApiCreateTool({"u1"}, TextDrafts)
    \/ ApiUpdateTool({"u1"}, TextPatches)
    \/ WebEditTool({"u1"}, TextForms)

SpecText == Init /\ [][NextText]_vars

\* ------------------------------------------------------------- SpecSessions
\* The tool a request in a session passes to update_tool: the loaded tool
\* with the request's patch, or with the adjusted quantity, applied.
Patched(s) ==
    IF s.op = "quantity"
    THEN patch([NullPatch EXCEPT
                   !.quantity =
                       Some(AdjustedQuantity(s.loaded.quantity, s.action))],
               s.loaded)
    ELSE patch(s.patch, s.loaded)

\* PATCH /api/tool/{tool_id} or POST /update_quantity/{tool_id}, up to and
\* including db.get_tool_by_id.  A failed lookup ends the request.
SessionRead(U, P, A) ==
    \E u \in U, id \in ToolIds,
       k \in ({"update"} \X P \X {""}) \cup ({"quantity"} \X {NullPatch} \X A) :
        /\ Len(sessions) < MaxSessions
        /\ LET g == get_tool_by_id(tools, u, id)
               req == Request(k[1], u, id, NoDraft, k[2], None, k[3])
           IN  IF g.status = "ok"
               THEN /\ sessions' =
                          Append(sessions,
                                 [op |-> k[1], user |-> u, id |-> id,
                                  patch |-> k[2], action |-> k[3],
                                  loaded |-> g.out[1], pc |-> "read",
                                  status |-> ""])
                    /\ UNCHANGED <<tools, last, solo>>
               ELSE /\ last' = Responded(req, g)
                    /\ UNCHANGED <<tools, solo, sessions>>
        /\ UNCHANGED nextId

\* The rest of that request: patch, db.update_tool, the response.
SessionCommit ==
    \E i \in 1..Len(sessions) :
        /\ sessions[i].pc = "read"
        /\ LET s == sessions[i]
               res == update_tool_in_session(tools, s.user, s.loaded,
                                             Patched(s))
           IN  /\ tools' = res.store
               /\ solo' = [solo EXCEPT ![s.user] =
                              update_tool_in_session(solo[s.user], s.user,
                                  s.loaded, Patched(s)).store]
               /\ last' = Responded(Request(s.op, s.user, s.id, NoDraft,
                                            s.patch, None, s.action), res)
               /\ sessions' = [sessions EXCEPT ![i].pc = "done",
                                               ![i].status = res.status]
        /\ UNCHANGED nextId

\* One user; tools are created with quantity 0, renamed and incremented
\* in sessions, and deleted.
SessionDrafts == {Draft(nA, 0, None, None)}

\* A rename, and the empty patch, which modifies nothing.
SessionPatches == Patches \cup {NullPatch}

NextSessions ==
    \/ ApiCreateTool({"u1"}, SessionDrafts)
    \/ WebDeleteTool({"u1"})
    \/ SessionRead({"u1"}, SessionPatches, {"increment"})
    \/ SessionCommit

SpecSessions == Init /\ [][NextSessions]_vars

\* ------------------------------------------------------------- properties
Row(store, tool_id) ==
    CHOOSE r \in {store[i] : i \in 1..Len(store)} : r.id = tool_id

Foreign(store, user, tool_id) ==
    \E i \in 1..Len(store) :
        store[i].id = tool_id /\ store[i].created_by_user_id # user

NotFound(resp) == resp.status = "ToolNotFoundError" /\ resp.out = <<>>

\* C1: a get_tool_by_id, update_tool or delete_tool request of a user for a
\* record another user created fails with ToolNotFoundError and leaves the
\* table as it was.
C1_OwnerOnly ==
    [][(/\ last'.op \in {"get", "update", "db_update", "delete"}
        /\ Foreign(tools, last'.user, last'.id))
       => (NotFound(last') /\ tools' = tools)]_vars

\* A delete of a foreign record was refused and the record is still stored.
C1_Witness ==
    /\ last.op = "delete"
    /\ NotFound(last)
    /\ Foreign(tools, last.user, last.id)

\* C2: no stored record has a negative quantity, and an update or edit
\* request carrying a negative quantity does not succeed.
C2_QuantityNonNegative ==
    /\ \A i \in 1..Len(tools) : tools[i].quantity >= 0
    /\ (/\ last.op \in {"update", "edit"}
        /\ last.patch.quantity # None
        /\ last.patch.quantity[1] < 0)
       => last.status \in {"ValidationError", "ToolNotFoundError"}

\* The edit form sent a negative quantity for the user's own record and
\* the store's validation rejected it.
C2_Witness ==
    /\ last.op = "edit"
    /\ last.patch.quantity[1] < 0
    /\ last.status = "ValidationError"
    /\ get_tool_by_id(tools, last.user, last.id).status = "ok"

\* C3: no stored record has an empty name; a create whose stripped name is
\* empty and an update or edit whose patch names "" do not succeed.
C3_NameNonEmpty ==
    /\ \A i \in 1..Len(tools) : Len(tools[i].name) >= 1
    /\ (last.op = "create" /\ strip(last.draft.name) = <<>>)
       => last.status \in {"ValidationError", "RequestValidationError"}
    /\ (last.op \in {"update", "edit"} /\ last.patch.name = Some(<<>>))
       => last.status \in {"ValidationError", "ToolNotFoundError"}

\* A draft named " " passed ToolCreate, was stripped to "" and was
\* rejected by the store.
C3_Witness ==
    /\ last.op = "create"
    /\ ToolCreateValid(last.draft)
    /\ strip(last.draft.name) = <<>>
    /\ last.status = "ValidationError"

\* C4: after a successful create by o, get_tool_by_id(o, id) returns the
\* created record, whose owner is o and whose description and image are ""
\* when the draft gave none.
C4_CreateGetRoundTrip ==
    (last.op = "create" /\ last.status = "ok")
    => LET t == last.out[1]
           g == get_tool_by_id(tools, last.user, t.id)
       IN  /\ g.status = "ok"
           /\ g.out = <<t>>
           /\ t.id = last.id
           /\ t.created_by_user_id = last.user
           /\ last.draft.description = None => t.description = <<>>
           /\ last.draft.image = None => t.image = <<>>

\* The second user created a tool from a draft with a description and no
\* image.
C4_Witness ==
    /\ last.op = "create"
    /\ last.status = "ok"
    /\ last.user = "u2"
    /\ last.draft.description # None
    /\ last.out[1].description = tD
    /\ last.out[1].image = <<>>

AllOwnedBy(out, user) ==
    \A i \in 1..Len(out) : out[i].created_by_user_id = user

\* C5: what get_tools, search_tools and get_tool_by_id answer a user is what
\* they would answer had only that user's requests been served, and lists
\* and search results hold only the user's own records.
C5_UsersIndependent ==
    /\ \A b \in Users :
          /\ \A name \in Filters :
                /\ get_tools(tools, b, name) = get_tools(solo[b], b, name)
                /\ AllOwnedBy(get_tools(tools, b, name), b)
          /\ \A query \in Queries :
                LET r == search_tools(tools, b, query)
                    s == search_tools(solo[b], b, query)
                IN  r.status = s.status /\ r.out = s.out /\ AllOwnedBy(r.out, b)
          /\ \A id \in ToolIds :
                LET r == get_tool_by_id(tools, b, id)
                    s == get_tool_by_id(solo[b], b, id)
                IN  r.status = s.status /\ r.out = s.out
    /\ last.op \in {"list", "search", "get"} => AllOwnedBy(last.out, last.user)

\* One user has a record and the other, who has none, listed: nothing.
C5_Witness ==
    /\ last.op = "list"
    /\ last.text = None
    /\ last.out = <<>>
    /\ \E i \in 1..Len(tools) : tools[i].created_by_user_id # last.user

\* The records of user that search_tools is to return for query.
Scoring(store, user, query) ==
    {r \in {store[i] : i \in 1..Len(store)} :
        r.created_by_user_id = user /\ score(query, r) > 50}

\* C6: a search answers with exactly the user's records scoring above 50,
\* each once, in non-increasing order of score.
C6_SearchRanked ==
    last.op = "search"
    => /\ last.status = "ok"
       /\ {last.out[i] : i \in 1..Len(last.out)}
              = Scoring(tools, last.user, last.text[1])
       /\ Len(last.out) = Cardinality(Scoring(tools, last.user, last.text[1]))
       /\ \A i \in 1..(Len(last.out) - 1) :
              score(last.text[1], last.out[i])
                  >= score(last.text[1], last.out[i + 1])

\* C7: a list with a name filter answers with the user's records of
\* exactly that name, and without a filter with all the user's records.
C7_ListFilter ==
    last.op = "list"
    => last.out =
          IF last.text = None THEN OwnedBy(tools, last.user)
          ELSE SelectSeq(OwnedBy(tools, last.user),
                         LAMBDA r : r.name = last.text[1])

\* Ids that were persisted and are no longer stored.
Deleted(store, next) == {id \in 1..(next - 1) : id \notin Ids(store)}

\* C8: a delete fails with ToolNotFoundError, changing nothing, exactly
\* when get_tool_by_id fails; otherwise it removes that record only.  A
\* deleted id is never stored again, get and delete of it fail, and no
\* list or search shows it.
C8_DeletePermanent ==
    [][/\ last'.op = "delete"
          => LET g == get_tool_by_id(tools, last'.user, last'.id)
             IN  IF g.status = "ok"
                 THEN /\ last'.status = "ok"
                      /\ tools' = SelectSeq(tools, LAMBDA r : r.id # last'.id)
                      /\ Len(tools') = Len(tools) - 1
                 ELSE NotFound(last') /\ tools' = tools
       /\ \A id \in Deleted(tools, nextId) :
             /\ id \in Deleted(tools', nextId')
             /\ (last'.op \in {"get", "delete"} /\ last'.id = id)
                => NotFound(last')
             /\ \A i \in 1..Len(last'.out) : last'.out[i].id # id]_vars

\* A record was deleted while another one stays stored.
C8_Witness ==
    /\ last.op = "delete"
    /\ last.status = "ok"
    /\ last.id \in Deleted(tools, nextId)
    /\ Len(tools) >= 1

\* C9: a successful update or edit sets each of name, quantity,
\* description and image to the patch's value where it gives one and keeps
\* it otherwise, keeps id and owner and every other record; an all-null
\* patch changes nothing, a failed request changes nothing, and the same
\* request again changes nothing more.
C9_PatchSemantics ==
    [][last'.op \in {"update", "edit"}
       => IF last'.status = "ok"
          THEN LET p == last'.patch
                   r == Row(tools, last'.id)
                   n == Row(tools', last'.id)
               IN  /\ n.name = IF p.name # None THEN p.name[1] ELSE r.name
                   /\ n.quantity =
                          IF p.quantity # None THEN p.quantity[1]
                          ELSE r.quantity
                   /\ n.description =
                          IF p.description # None THEN p.description[1]
                          ELSE r.description
                   /\ n.image = IF p.image # None THEN p.image[1] ELSE r.image
                   /\ n.id = r.id
                   /\ n.created_by_user_id = r.created_by_user_id
                   /\ Len(tools') = Len(tools)
                   /\ \A i \in 1..Len(tools) :
                         tools[i].id # last'.id => tools'[i] = tools[i]
                   /\ last'.out = <<n>>
                   /\ p = NullPatch => tools' = tools
                   /\ api_update_tool(tools', last'.user, last'.id, p).store
                          = tools'
          ELSE tools' = tools]_vars

\* A patch of the image alone was applied to a record that has a
\* description.
C9_Witness ==
    /\ last.op = "update"
    /\ last.status = "ok"
    /\ last.patch.image = Some(tI)
    /\ last.out[1].image = tI
    /\ last.out[1].description = tD

\* C10: on the user's own record with quantity q an increment stores q + 1
\* and a decrement stores max(0, q - 1), never below 0; name, description,
\* image, owner and the other records stay, and the response shows the
\* stored quantity.
C10_QuantityAdjust ==
    [][(/\ last'.op = "quantity"
        /\ get_tool_by_id(tools, last'.user, last'.id).status = "ok")
       => LET r == Row(tools, last'.id)
              n == Row(tools', last'.id)
          IN  /\ last'.status = "ok"
              /\ n.quantity =
                     IF last'.action = "increment" THEN r.quantity + 1
                     ELSE IF r.quantity >= 1 THEN r.quantity - 1 ELSE 0
              /\ n.quantity >= 0
              /\ n = [r EXCEPT !.quantity = n.quantity]
              /\ \A i \in 1..Len(tools) :
                    tools[i].id # last'.id => tools'[i] = tools[i]
              /\ Len(tools') = Len(tools)
              /\ last'.out[1].quantity = n.quantity]_vars

\* A decrement left the stored quantity at 0.
C10_Witness ==
    /\ last.op = "quantity"
    /\ last.action = "decrement"
    /\ last.status = "ok"
    /\ last.out[1].quantity = 0
    /\ Row(tools, last.id).quantity = 0

\* C11: an update whose record was deleted between its lookup and its
\* commit fails with ToolNotFoundError, and the record stays deleted.
C11_UpdateOfDeletedRow ==
    [][\A i \in 1..Len(sessions) :
          (/\ sessions[i].pc = "read"
           /\ sessions'[i].pc = "done"
           /\ sessions[i].id \notin Ids(tools))
          => (/\ sessions'[i].status = "ToolNotFoundError"
              /\ last'.status = "ToolNotFoundError"
              /\ sessions[i].id \notin Ids(tools'))]_vars

\* The increments of a tool that have completed successfully.
Increments(tool_id) ==
    {i \in 1..Len(sessions) :
        /\ sessions[i].id = tool_id
        /\ sessions[i].op = "quantity"
        /\ sessions[i].action = "increment"
        /\ sessions[i].pc = "done"
        /\ sessions[i].status = "ok"}

\* C12: once the increment requests for a tool, created with quantity 0,
\* have all completed successfully, its stored quantity is their number.
C12_NoLostIncrement ==
    \A n \in 1..Len(tools) :
        (\A i \in 1..Len(sessions) :
            (sessions[i].id = tools[n].id /\ sessions[i].op = "quantity")
                => i \in Increments(tools[n].id))
        => tools[n].quantity = Cardinality(Increments(tools[n].id))

====
